---- MODULE Spec2Model ----
(***************************************************************************)
(* Model of ollama_client.ipynb: a chat driver (cell 9) that hands every   *)
(* user utterance to handle_user_message (cell 7), which runs a            *)
(* FunctionAgent built by get_agent (cell 6) over the tools of an MCP      *)
(* server, drains the run's event stream and returns the final response.   *)
(*                                                                         *)
(* The notebook's own code is modelled statement by statement.  The run of *)
(* the agent (agent.run, line 189) is the workflow the notebook starts; it *)
(* is modelled by its steps as the notebook observes them through the      *)
(* event stream (the recorded output of cell 9): a decision, then for a    *)
(* batch of tool calls one ToolCall event per request in request order and *)
(* one ToolCallResult per request as the calls finish, then a decision     *)
(* again, until a decision is the final answer.                            *)
(***************************************************************************)
EXTENDS Naturals, Sequences, FiniteSets

VARIABLES
    provider_tools,  \* tools the MCP server exposes right now
    agent_tools,     \* tool list the agent was built with (get_agent)
    channel_sent,    \* tool names mcp_client has sent to the server
    provider_log,    \* calls the server performed that changed the table
    agent_context,   \* Context(agent): the message history of the session
    pc,              \* position of the driver loop / of the turn
    hpc,             \* position inside handle_user_message
    turn,            \* the turn in progress: position of its user message
    verbose,         \* the verbose argument of handle_user_message
    batch,           \* tool calls of the current decision, in request order
    started,         \* indexes of the batch whose call has been started
    completed,       \* indexes of the batch whose call has returned
    stream,          \* handler.stream_events(): written, not yet read
    consumed,        \* tool events read from the stream in this turn
    printed,         \* lines printed by handle_user_message in this turn
    ctx_at_start,    \* Len(agent_context) when the turn began
    response,        \* what handle_user_message has returned for the last
                     \* utterance (none while its turn runs)
    user_input,      \* the line input() returned last (driver loop)
    second           \* a second conversation over its own Context: its
                     \* state while the other conversation's code runs

vars == <<provider_tools, agent_tools, channel_sent, provider_log,
          agent_context, pc, hpc, turn, verbose, batch,
          started, completed, stream, consumed, printed, ctx_at_start,
          response, user_input, second>>

(***************************************************************************)
(* Bounds of the model.                                                    *)
(***************************************************************************)
\* The context holds at most MaxMessages messages: a turn is begun, and a
\* batch of tool calls decided, only if its messages and the final answer fit.
MaxMessages == 4

(***************************************************************************)
(* The tools of the server (output of cell 4) and the names the language   *)
(* model asks for in the recorded run.                                     *)
(***************************************************************************)
Tools == {"add_data", "read_data", "update_data", "delete_data"}

RequestNames == {"read_data", "update_data", "delete_data"}

\* The tools that change the people table; read_data only selects.
Mutating == {"add_data", "update_data", "delete_data"}

\* The tool sets the server is seen with: all four, or delete_data removed.
ProviderToolSets == {Tools, Tools \ {"delete_data"}}

\* What input() returns: the word that ends the loop, the empty line, a text.
Utterances == {"exit", "", "show"}

\* The lines typed where the text of the line is not looked at.
TypedLines == {"exit", "show"}

\* How one call on the server ends.
Outcomes == {"ok", "app_error", "transport_error"}

NoResponse == [turn |-> 0, text |-> "none"]

\* Sequences over S of length 1..n.
SeqsUpTo(S, n) == UNION {[1..k -> S] : k \in 1..n}

(***************************************************************************)
(* Messages of the Session Context and events of the stream.               *)
(***************************************************************************)
UserMessage(t) == [turn |-> t, role |-> "user", name |-> "", is_error |-> FALSE]

ToolMessageUnflagged(t, n, err) ==
    [turn |-> t, role |-> "tool", name |-> n, is_error |-> FALSE]

ToolMessage(t, n, err) == [turn |-> t, role |-> "tool", name |-> n, is_error |-> err]

AssistantMessage(t) == [turn |-> t, role |-> "assistant", name |-> "", is_error |-> FALSE]

\* tool_id is the place of the request in its batch; tool_output says how
\* the call ended ("ok", "app_error", "transport_error", "not_found").
ToolCall(n, id) ==
    [type |-> "ToolCall", tool_name |-> n, tool_id |-> id,
     tool_output |-> "", is_error |-> FALSE]

ToolCallResult(n, id, out, err) ==
    [type |-> "ToolCallResult", tool_name |-> n, tool_id |-> id,
     tool_output |-> out, is_error |-> err]

StopEvent ==
    [type |-> "StopEvent", tool_name |-> "", tool_id |-> 0,
     tool_output |-> "", is_error |-> FALSE]

(***************************************************************************)
(* get_agent: the agent's tools are the list to_tool_list_async returns,   *)
(* taken whole.                                                            *)
(***************************************************************************)
get_agent_keeps_old(remote) == agent_tools \cup remote

get_agent(remote) == remote

(***************************************************************************)
(* The body of the async-for of handle_user_message: what one event adds   *)
(* to the printed output.                                                  *)
(***************************************************************************)
PrintEvent(v, out, event) ==
    IF v /\ event.type = "ToolCall"
    THEN Append(out, <<"Calling tool", event.tool_name>>)
    ELSE IF v /\ event.type = "ToolCallResult"
    THEN Append(out, <<"Tool returned", event.tool_name>>)
    ELSE out

\* The async-for runs whatever verbose is: every event is taken off the stream.
ReadsStreamIfVerbose(v) == v

ReadsStream(v) == TRUE

\* The driver reads the next line only at the top of its loop.
AcceptsInputInTurn(p) == p \in {"AwaitingInput", "Deciding", "Invoking"}

AcceptsInput(p) == p = "AwaitingInput"

\* The tools a turn runs with: the loop hands handle_user_message the agent
\* built in cell 8; nothing in the loop calls get_agent.
TurnToolsRediscovered(held, remote) == remote

TurnTools(held, remote) == held

\* The loop leaves only on the word exit; every other line is a turn.
IsExitOrEmpty(u) == u \in {"exit", ""}

IsExit(u) == u = "exit"

(***************************************************************************)
(* The result of one tool call.  A name the agent does not hold is         *)
(* answered by the agent itself with an errored result; a held name is     *)
(* sent to the server, and whatever goes wrong there (the server no longer *)
(* has the tool, the tool fails, the connection fails) comes back as an    *)
(* errored result too.                                                     *)
(***************************************************************************)
ResolvesAnyName(n) == TRUE

Resolves(n) == n \in agent_tools

\* What the result of the call of n says, o being how the call ends at the
\* server.
ToolOutput(n, o) ==
    IF ~Resolves(n) THEN "not_found"
    ELSE IF n \notin provider_tools THEN "app_error"
    ELSE o

TransportFailureNotFlagged(n, o) == ToolOutput(n, o) \in {"app_error", "not_found"}

IsErrorResult(n, o) == ToolOutput(n, o) # "ok"

\* Whether the server performed the call: it answered ok, or the connection
\* failed after the request had reached it.
Performed(n, o, reached) ==
    /\ Resolves(n)
    /\ n \in provider_tools
    /\ o = "ok" \/ (o = "transport_error" /\ reached)

\* The requests of a batch are taken up in the order the decision lists them.
Min(S) == CHOOSE x \in S : \A y \in S : x <= y

Max(S) == CHOOSE x \in S : \A y \in S : x >= y

NextToStartLast(b, s) == Max((1..Len(b)) \ s)

NextToStart(b, s) == Min((1..Len(b)) \ s)

\* A call returns once, and after the requests of its batch were all taken
\* up (in the recorded run every "Calling tool" line of a batch precedes its
\* first "Tool ... returned" line).
CompletesUnstarted(i) == i \notin completed

CanComplete(i) == started = 1..Len(batch) /\ i \notin completed

\* Where the turn stands after a call has returned: an errored result is
\* an event like any other, the batch goes on.
AfterResultRaises(err) == IF err THEN "Crashed" ELSE "Invoking"

AfterResultAnswers(err) == "Responding"

AfterResultAborts(err) == IF err THEN "Deciding" ELSE "Invoking"

AfterResult(err) == "Invoking"

\* What a failed run leaves in the context: nothing is taken back.
ContextRolledBack(ctx, n) == SubSeq(ctx, 1, n)

ContextAfterFailure(ctx, n) == ctx

(***************************************************************************)
(* Two conversations.  handle_user_message takes the Context as an         *)
(* argument, so a second conversation is a second Context(agent) handed to *)
(* calls of the same function over the same agent.  The variables above    *)
(* are those of the conversation whose code is running; second holds the   *)
(* other one, and the two change places where the running coroutine        *)
(* awaits.  Conversation 1 is the one of cell 8 (the global agent_context).*)
(***************************************************************************)
FreshSession ==
    [id |-> 2, agent_context |-> <<>>, pc |-> "Stopped", hpc |-> "idle",
     turn |-> 0, batch |-> <<>>, started |-> {}, completed |-> {},
     stream |-> <<>>, consumed |-> <<>>, printed |-> <<>>,
     ctx_at_start |-> 0, response |-> NoResponse, user_input |-> "none"]

\* No second Context has been made: the notebook as it is.
NoSession == [id |-> 2, agent_context |-> <<>>]

\* The conversation whose code is running.
Running == 3 - second.id

\* The running conversation's state, as it is put aside.
SessionState ==
    [id |-> Running, agent_context |-> agent_context, pc |-> pc, hpc |-> hpc,
     turn |-> turn, batch |-> batch, started |-> started,
     completed |-> completed, stream |-> stream, consumed |-> consumed,
     printed |-> printed, ctx_at_start |-> ctx_at_start,
     response |-> response, user_input |-> user_input]

\* The Context a run writes to: agent.run(message_content, ctx=agent_context)
\* names the parameter of handle_user_message, not the global of cell 8.
ContextUsedGlobal(own) == 1

ContextUsed(own) == own

\* A message joins the Context the run was given.
Put(m) ==
    IF ContextUsed(Running) = Running
    THEN /\ agent_context' = Append(agent_context, m)
         /\ second' = second
    ELSE /\ agent_context' = agent_context
         /\ second' = [second EXCEPT !.agent_context = Append(@, m)]

\* Messages held by both conversations together.
TotalMessages == Len(agent_context) + Len(second.agent_context)

\* Where the running conversation lets the event loop run other code: at
\* the awaits of handle_user_message, and when its cell is not running;
\* input() is a blocking call.
YieldsWhenAnswered(p) == p \notin {"AwaitingInput", "Deciding", "Invoking"}

YieldsAt(p) == p # "AwaitingInput"

(***************************************************************************)
(* Init: the notebook after cells 1-8: the agent is built from the tools   *)
(* of the server, the context is new, the driver cell has not run.         *)
(***************************************************************************)
InitState(v) ==
    /\ provider_tools = Tools
    /\ agent_tools = Tools
    /\ channel_sent = {}
    /\ provider_log = {}
    /\ agent_context = <<>>
    /\ pc = "Stopped"
    /\ hpc = "idle"
    /\ turn = 0
    /\ verbose = v
    /\ batch = <<>>
    /\ started = {}
    /\ completed = {}
    /\ stream = <<>>
    /\ consumed = <<>>
    /\ printed = <<>>
    /\ ctx_at_start = 0
    /\ response = NoResponse
    /\ user_input = "none"
    /\ second = NoSession

\* The driver cell calls handle_user_message with verbose=True.
Init == InitState(TRUE)

\* The server's tool set changes while the notebook idles between two runs
\* of its cells.
ProviderChange ==
    /\ pc \in {"Stopped", "Crashed"}
    /\ provider_tools' \in ProviderToolSets \ {provider_tools}
    /\ UNCHANGED <<user_input, second, agent_tools, channel_sent, provider_log, agent_context, pc,
                   hpc, turn, verbose, batch, started,
                   completed, stream, consumed, printed, ctx_at_start, response>>

\* Cell 8 is run again: a new client, a new agent over the tools discovered
\* now, and a new, empty context.
BuildAgent ==
    /\ pc \in {"Stopped", "Crashed"}
    /\ agent_tools' = get_agent(provider_tools)
    /\ channel_sent' = {}
    /\ agent_context' = <<>>
    /\ UNCHANGED <<user_input, second, provider_tools, provider_log, pc, hpc, turn, verbose, batch, started, completed, stream,
                   consumed, printed, ctx_at_start, response>>

\* Cell 9 is run: the while loop starts and waits in input().
RunDriver ==
    /\ pc \in {"Stopped", "Crashed"}
    /\ pc' = "AwaitingInput"
    /\ UNCHANGED <<user_input, second, provider_tools, agent_tools, channel_sent, provider_log,
                   agent_context, hpc, turn, verbose, batch,
                   started, completed, stream, consumed, printed, ctx_at_start,
                   response>>

\* One pass of the while loop up to the call of agent.run: exit breaks, any
\* other line is printed and handed to handle_user_message, whose agent.run
\* puts the user message into the context and starts deciding.
Input(u) ==
    /\ AcceptsInput(pc)
    /\ user_input' = u
    /\ IF IsExit(u)
       THEN /\ pc' = "Stopped"
            /\ UNCHANGED <<agent_context, hpc, turn, stream, consumed, printed,
                           ctx_at_start, response, second>>
       ELSE /\ TotalMessages + 2 <= MaxMessages
            /\ turn' = Len(agent_context) + 1
            /\ ctx_at_start' = Len(agent_context)
            /\ Put(UserMessage(Len(agent_context) + 1))
            /\ pc' = "Deciding"
            /\ hpc' = "streaming"
            /\ stream' = <<>>
            /\ consumed' = <<>>
            /\ printed' = <<>>
            /\ response' = NoResponse
    /\ agent_tools' = TurnTools(agent_tools, provider_tools)
    /\ UNCHANGED <<provider_tools, channel_sent, provider_log,
                   verbose, batch, started, completed>>

\* The language model answers with text: the answer joins the context and
\* the stream ends.
DecideFinal ==
    /\ pc = "Deciding"
    /\ Put(AssistantMessage(turn))
    /\ stream' = Append(stream, StopEvent)
    /\ pc' = "Responding"
    /\ UNCHANGED <<user_input, provider_tools, agent_tools, channel_sent, provider_log, hpc,
                   turn, verbose, batch, started, completed,
                   consumed, printed, ctx_at_start, response>>

\* The language model answers with a batch of tool calls.
DecideTools(b) ==
    /\ pc = "Deciding"
    /\ TotalMessages + Len(b) + 1 <= MaxMessages
    /\ batch' = b
    /\ started' = {}
    /\ completed' = {}
    /\ pc' = "Invoking"
    /\ UNCHANGED <<user_input, second, provider_tools, agent_tools, channel_sent, provider_log,
                   agent_context, hpc, turn, verbose, stream, consumed,
                   printed, ctx_at_start, response>>

\* The call of the language model fails (unreachable, request_timeout, an
\* unusable answer): the run raises, nothing in handle_user_message or in
\* the while loop catches it, the cell ends with the exception.
DecideFails ==
    /\ pc = "Deciding"
    /\ pc' = "Crashed"
    /\ hpc' = "idle"
    /\ agent_context' = ContextAfterFailure(agent_context, ctx_at_start)
    /\ stream' = <<>>
    /\ consumed' = <<>>
    /\ printed' = <<>>
    /\ turn' = 0
    /\ ctx_at_start' = 0
    /\ UNCHANGED <<user_input, second, provider_tools, agent_tools, channel_sent, provider_log,
                   verbose, batch, started, completed, response>>

\* The next request of the batch is taken up: its ToolCall event is written.
StartCall ==
    /\ pc = "Invoking"
    /\ started # 1..Len(batch)
    /\ started' = started \cup {NextToStart(batch, started)}
    /\ stream' = Append(stream, ToolCall(batch[NextToStart(batch, started)],
                                          NextToStart(batch, started)))
    /\ UNCHANGED <<user_input, second, provider_tools, agent_tools, channel_sent, provider_log,
                   agent_context, pc, hpc, turn, verbose,
                   batch, completed, consumed, printed, ctx_at_start, response>>

\* A started call returns, o being how it ended at the server and reached
\* whether a request whose connection failed had got there: its
\* ToolCallResult is written and its result joins the context.
CompleteCall(i, o, reached) ==
    /\ pc = "Invoking"
    /\ i \in 1..Len(batch)
    /\ CanComplete(i)
    /\ channel_sent' = IF Resolves(batch[i]) THEN channel_sent \cup {batch[i]}
                       ELSE channel_sent
    /\ provider_log' = IF Performed(batch[i], o, reached) /\ batch[i] \in Mutating
                       THEN provider_log \cup {batch[i]}
                       ELSE provider_log
    /\ stream' = Append(stream,
                        ToolCallResult(batch[i], i, ToolOutput(batch[i], o),
                                       IsErrorResult(batch[i], o)))
    /\ Put(ToolMessage(turn, batch[i], IsErrorResult(batch[i], o)))
    /\ completed' = completed \cup {i}
    /\ pc' = AfterResult(IsErrorResult(batch[i], o))
    /\ UNCHANGED <<user_input, provider_tools, agent_tools, hpc, turn, verbose, batch,
                   started, consumed, printed, ctx_at_start, response>>

\* Every call of the batch has returned: the language model is asked again.
AggregateToolResults ==
    /\ pc = "Invoking"
    /\ completed = 1..Len(batch)
    /\ pc' = "Deciding"
    /\ batch' = <<>>
    /\ started' = {}
    /\ completed' = {}
    /\ UNCHANGED <<user_input, second, provider_tools, agent_tools, channel_sent, provider_log,
                   agent_context, hpc, turn, verbose, stream,
                   consumed, printed, ctx_at_start, response>>

\* What one round of the async-for does to the stream, v being the value
\* of verbose: the next event is taken off it.
ReadEvent(v) ==
    /\ hpc = "streaming"
    /\ ReadsStream(v)
    /\ stream # <<>>
    /\ stream' = Tail(stream)
    /\ consumed' = Append(consumed, Head(stream))
    /\ hpc' = IF Head(stream).type = "StopEvent" THEN "awaiting" ELSE "streaming"

\* One round of the async-for of handle_user_message.
ConsumeEvent ==
    /\ ReadEvent(verbose)
    /\ printed' = PrintEvent(verbose, printed, Head(stream))
    /\ UNCHANGED <<user_input, second, provider_tools, agent_tools, channel_sent, provider_log,
                   agent_context, pc, turn, verbose, batch,
                   started, completed, ctx_at_start, response>>

\* response = await handler; return str(response): back in the while loop
\* the answer is printed and input() is called again.
Return ==
    /\ hpc = "awaiting"
    /\ pc = "Responding"
    /\ response' = [turn |-> turn, text |-> "final"]
    /\ hpc' = "idle"
    /\ pc' = "AwaitingInput"
    /\ consumed' = <<>>
    /\ printed' = <<>>
    /\ turn' = 0
    /\ ctx_at_start' = 0
    /\ UNCHANGED <<user_input, second, provider_tools, agent_tools, channel_sent, provider_log,
                   agent_context, verbose, batch, started, completed, stream>>

\* The running coroutine awaits and the event loop runs the other
\* conversation's code.
Yield ==
    /\ YieldsAt(pc)
    /\ second' = SessionState
    /\ agent_context' = second.agent_context
    /\ pc' = second.pc
    /\ hpc' = second.hpc
    /\ turn' = second.turn
    /\ batch' = second.batch
    /\ started' = second.started
    /\ completed' = second.completed
    /\ stream' = second.stream
    /\ consumed' = second.consumed
    /\ printed' = second.printed
    /\ ctx_at_start' = second.ctx_at_start
    /\ response' = second.response
    /\ user_input' = second.user_input
    /\ UNCHANGED <<provider_tools, agent_tools, channel_sent, provider_log,
                   verbose>>

Next ==
    \/ ProviderChange
    \/ BuildAgent
    \/ RunDriver
    \/ \E u \in TypedLines : Input(u)
    \/ DecideFinal
    \/ \E b \in SeqsUpTo(RequestNames, MaxMessages - 2) : DecideTools(b)
    \/ DecideFails
    \/ StartCall
    \/ \E i \in 1..MaxMessages, o \in Outcomes, reached \in BOOLEAN :
           CompleteCall(i, o, reached)
    \/ AggregateToolResults
    \/ ConsumeEvent
    \/ Return

Spec == Init /\ [][Next]_vars

(***************************************************************************)
(* One conversation (the driver cell and the turns of its loop) with       *)
(* handle_user_message called with either value of verbose.  The event     *)
(* loop keeps running the coroutine of handle_user_message: a round of its *)
(* async-for that can run does run, and so does its return.                *)
(***************************************************************************)
InitEitherVerbose == \E v \in BOOLEAN : InitState(v)

NextChat ==
    \/ RunDriver
    \/ \E u \in TypedLines : Input(u)
    \/ DecideFinal
    \/ \E b \in SeqsUpTo(RequestNames, MaxMessages - 2) : DecideTools(b)
    \/ DecideFails
    \/ StartCall
    \/ \E i \in 1..MaxMessages, o \in Outcomes, reached \in BOOLEAN :
           CompleteCall(i, o, reached)
    \/ AggregateToolResults
    \/ ConsumeEvent
    \/ Return

(***************************************************************************)
(* One conversation as the driver cell runs it (verbose=True), the lines   *)
(* typed being exit, the empty line or a text.                             *)
(***************************************************************************)
NextDriver ==
    \/ RunDriver
    \/ \E u \in Utterances : Input(u)
    \/ DecideFinal
    \/ \E b \in SeqsUpTo(RequestNames, MaxMessages - 2) : DecideTools(b)
    \/ DecideFails
    \/ StartCall
    \/ \E i \in 1..MaxMessages, o \in Outcomes, reached \in BOOLEAN :
           CompleteCall(i, o, reached)
    \/ AggregateToolResults
    \/ ConsumeEvent
    \/ Return

ChatSpec == Init /\ [][NextDriver]_vars

FairSpec ==
    /\ InitEitherVerbose
    /\ [][NextChat]_vars
    /\ WF_vars(ConsumeEvent)
    /\ WF_vars(Return)

(***************************************************************************)
(* The notebook with its cells interrupted.  An interrupt while            *)
(* handle_user_message awaits raises in the cell like a failed call of the *)
(* language model does: nothing in handle_user_message or in the while     *)
(* loop catches it or cleans up.  served are the calls in flight that the  *)
(* server has carried out by then; their results never come back.          *)
(***************************************************************************)
InFlight == started \ completed

ServerRuns(i) == Resolves(batch[i]) /\ batch[i] \in provider_tools

Cancel(served) ==
    /\ pc \in {"Deciding", "Invoking", "Responding"}
    /\ served \subseteq {i \in InFlight : ServerRuns(i)}
    /\ channel_sent' = channel_sent \cup {batch[i] : i \in served}
    /\ provider_log' = provider_log \cup
                          {batch[i] : i \in {j \in served : batch[j] \in Mutating}}
    /\ agent_context' = ContextAfterFailure(agent_context, ctx_at_start)
    /\ pc' = "Crashed"
    /\ hpc' = "idle"
    /\ batch' = <<>>
    /\ started' = {}
    /\ completed' = {}
    /\ stream' = <<>>
    /\ consumed' = <<>>
    /\ printed' = <<>>
    /\ turn' = 0
    /\ ctx_at_start' = 0
    /\ UNCHANGED <<provider_tools, agent_tools, verbose, response, user_input,
                   second>>

NextCancel ==
    \/ ProviderChange
    \/ BuildAgent
    \/ RunDriver
    \/ \E u \in TypedLines : Input(u)
    \/ DecideFinal
    \/ \E b \in SeqsUpTo(RequestNames, MaxMessages - 2) : DecideTools(b)
    \/ DecideFails
    \/ StartCall
    \/ \E i \in 1..MaxMessages, o \in Outcomes, reached \in BOOLEAN :
           CompleteCall(i, o, reached)
    \/ AggregateToolResults
    \/ ConsumeEvent
    \/ Return
    \/ \E served \in SUBSET (1..MaxMessages) : Cancel(served)

CancelSpec == Init /\ [][NextCancel]_vars

(***************************************************************************)
(* Two conversations over the same agent, each with its own Context and    *)
(* its own calls of handle_user_message (verbose=True), run by one event   *)
(* loop.                                                                   *)
(***************************************************************************)
\* The decisions for tools of the two conversations: one call, of a tool
\* that reads or of a tool that writes.
OneCall == {<<"read_data">>, <<"delete_data">>}

NextTwo ==
    \/ RunDriver
    \/ \E u \in TypedLines : Input(u)
    \/ DecideFinal
    \/ \E b \in OneCall : DecideTools(b)
    \/ DecideFails
    \/ StartCall
    \/ \E i \in 1..MaxMessages, o \in Outcomes, reached \in BOOLEAN :
           CompleteCall(i, o, reached)
    \/ AggregateToolResults
    \/ ConsumeEvent
    \/ Return
    \/ Yield

\* A second Context(agent) has been made next to the one of cell 8.
InitTwo ==
    /\ provider_tools = Tools
    /\ agent_tools = Tools
    /\ channel_sent = {}
    /\ provider_log = {}
    /\ agent_context = <<>>
    /\ pc = "Stopped"
    /\ hpc = "idle"
    /\ turn = 0
    /\ verbose = TRUE
    /\ batch = <<>>
    /\ started = {}
    /\ completed = {}
    /\ stream = <<>>
    /\ consumed = <<>>
    /\ printed = <<>>
    /\ ctx_at_start = 0
    /\ response = NoResponse
    /\ user_input = "none"
    /\ second = FreshSession

TwoSpec == InitTwo /\ [][NextTwo]_vars

(***************************************************************************)
(* What the caller of handle_user_message can observe of a turn.           *)
(***************************************************************************)
\* Every event written in this turn, in the order written.
Emitted == consumed \o stream

IsToolEvent(e) == e.type \in {"ToolCall", "ToolCallResult"}

ToolEvents(seq) == SelectSeq(seq, IsToolEvent)

LastN(seq, n) == SubSeq(seq, Len(seq) - n + 1, Len(seq))

\* The events of the batch in progress: the latest ones written.
BatchEvents == LastN(Emitted, Cardinality(started) + Cardinality(completed))

Kinds(seq) == [k \in 1..Len(seq) |-> <<seq[k].type, seq[k].tool_name>>]

\* The places in seq of the events of type ty for request id.
Places(seq, ty, id) ==
    {k \in 1..Len(seq) : seq[k].type = ty /\ seq[k].tool_id = id}

\* The messages of the turn in progress.
TurnMessages == SubSeq(agent_context, turn, Len(agent_context))

InTurn == {"Deciding", "Invoking", "Responding"}

DeleteThenUpdate == <<"delete_data", "update_data">>

(***************************************************************************)
(* C1 as stated: for the batch [delete, update] the events are             *)
(* ToolCall(delete), ToolCallResult(delete), ToolCall(update),             *)
(* ToolCallResult(update), in this order.                                  *)
(***************************************************************************)
C1_Sequential ==
    (pc = "Invoking" /\ batch = DeleteThenUpdate /\ completed = {1, 2})
    => Kinds(BatchEvents) = << <<"ToolCall", "delete_data">>,
                               <<"ToolCallResult", "delete_data">>,
                               <<"ToolCall", "update_data">>,
                               <<"ToolCallResult", "update_data">> >>

(***************************************************************************)
(* C1 amended: for the batch [delete, update] the stream holds exactly one *)
(* ToolCall per started request and one ToolCallResult per returned        *)
(* request, ToolCall(delete) before ToolCall(update) and each request's    *)
(* ToolCall before its own ToolCallResult; the results may come in either  *)
(* order and after both ToolCall events.                                   *)
(***************************************************************************)
C1_StartedInRequestOrder ==
    (pc = "Invoking" /\ batch = DeleteThenUpdate)
    => LET ev == BatchEvents
       IN  /\ Len(ev) = Cardinality(started) + Cardinality(completed)
           /\ \A k \in 1..Len(ev) : IsToolEvent(ev[k])
           /\ \A i \in 1..Len(batch) :
                /\ Cardinality(Places(ev, "ToolCall", i)) =
                       (IF i \in started THEN 1 ELSE 0)
                /\ Cardinality(Places(ev, "ToolCallResult", i)) =
                       (IF i \in completed THEN 1 ELSE 0)
                /\ \A k \in Places(ev, "ToolCall", i) \cup
                            Places(ev, "ToolCallResult", i) :
                       ev[k].tool_name = batch[i]
                /\ \A k \in Places(ev, "ToolCallResult", i) :
                       \E j \in Places(ev, "ToolCall", i) : j < k
           /\ \A k \in Places(ev, "ToolCall", 2) :
                  \E j \in Places(ev, "ToolCall", 1) : j < k

\* The order of the recorded run: both calls announced, update returns first.
C1_Witness ==
    /\ pc = "Invoking"
    /\ batch = DeleteThenUpdate
    /\ completed = {1, 2}
    /\ Kinds(BatchEvents) = << <<"ToolCall", "delete_data">>,
                               <<"ToolCall", "update_data">>,
                               <<"ToolCallResult", "update_data">>,
                               <<"ToolCallResult", "delete_data">> >>

(***************************************************************************)
(* C2: a turn decided as [read, final answer] emits exactly one ToolCall   *)
(* and one ToolCallResult, both for read_data, the ToolCall first, no      *)
(* other tool event, and handle_user_message has read (and, verbose,       *)
(* printed) both before it returns the answer.                             *)
(***************************************************************************)
ReadThenFinal ==
    /\ pc = "Responding"
    /\ Len(TurnMessages) = 3
    /\ TurnMessages[2].role = "tool"
    /\ TurnMessages[2].name = "read_data"
    /\ TurnMessages[3].role = "assistant"

C2_OnePairForRead ==
    ReadThenFinal
    => /\ Kinds(ToolEvents(Emitted)) = << <<"ToolCall", "read_data">>,
                                          <<"ToolCallResult", "read_data">> >>
       /\ response = NoResponse
       /\ hpc = "awaiting"
            => /\ stream = <<>>
               /\ printed = << <<"Calling tool", "read_data">>,
                               <<"Tool returned", "read_data">> >>

C2_Witness == ReadThenFinal /\ hpc = "awaiting" /\ Len(printed) = 2

Last(seq) == seq[Len(seq)]

\* This step writes the result of a call to the stream.
NewResult ==
    /\ pc = "Invoking"
    /\ completed' # completed
    /\ Len(stream') = Len(stream) + 1
    /\ Last(stream').type = "ToolCallResult"

TransportSeen ==
    \E k \in 1..Len(BatchEvents) : BatchEvents[k].tool_output = "transport_error"

C6_FailedTurnAwaitsInput ==
    [][(pc \in InTurn /\ pc' \notin InTurn) => pc' = "AwaitingInput"]_vars

(***************************************************************************)
(* C7: when get_agent runs again after the server's tools changed, the     *)
(* agent's tools are exactly the tools discovered then (with a new client  *)
(* that has sent nothing), and a turn sends the server only calls of tools *)
(* the agent holds: a tool removed from the server is not called by any    *)
(* later turn.                                                             *)
(***************************************************************************)
C7_RediscoveryReplacesTools ==
    [][/\ BuildAgent => (agent_tools' = provider_tools /\ channel_sent' = {})
       /\ \A n \in channel_sent' \ channel_sent : n \in agent_tools']_vars

\* After delete_data was removed and the agent rebuilt, a turn asked for
\* delete_data: it was answered "not found" and never sent.
C7_Witness ==
    /\ provider_tools = Tools \ {"delete_data"}
    /\ agent_tools = provider_tools
    /\ "delete_data" \notin channel_sent
    /\ \E k \in 1..Len(Emitted) :
          /\ Emitted[k].tool_name = "delete_data"
          /\ Emitted[k].tool_output = "not_found"

(***************************************************************************)
(* C8: a tool result with is_error true does not fail the turn: it is      *)
(* written to the stream as a ToolCallResult, appended to the context, the *)
(* batch goes on and from the batch the loop only goes back to deciding.   *)
(***************************************************************************)
C8_ErroredResultGoesOn ==
    [][/\ pc = "Invoking" => pc' \in {"Invoking", "Deciding"}
       /\ (NewResult /\ Last(stream').tool_output # "ok")
          => /\ Last(stream').is_error
             /\ Last(agent_context').role = "tool"
             /\ Last(agent_context').is_error
             /\ Last(agent_context').name = Last(stream').tool_name
             /\ Len(agent_context') = Len(agent_context) + 1]_vars

\* A turn with an errored result has returned its final answer.
C8_Witness ==
    /\ pc = "AwaitingInput"
    /\ response.text = "final"
    /\ \E k \in 1..Len(agent_context) :
          /\ agent_context[k].role = "tool"
          /\ agent_context[k].is_error
          /\ agent_context[k].turn = response.turn
    /\ agent_context[Len(agent_context)].role = "assistant"

(***************************************************************************)
(* C9: with verbose true or false, once the language model has given the   *)
(* final answer of a turn, handle_user_message returns it: the turn does   *)
(* not wait forever on events nobody reads.                                *)
(***************************************************************************)
C9_FinalAnswerIsReturned ==
    (pc = "Responding")
    ~> /\ pc = "AwaitingInput"
       /\ response.text = "final"
       /\ Last(agent_context).role = "assistant"
       /\ Last(agent_context).turn = response.turn

\* A quiet turn with tool calls has returned its answer, nothing printed.
C9_Witness ==
    /\ ~verbose
    /\ pc = "AwaitingInput"
    /\ response.text = "final"
    /\ \E k \in 1..Len(agent_context) :
          /\ agent_context[k].role = "tool"
          /\ agent_context[k].turn = response.turn

(***************************************************************************)
(* C10: turns do not overlap: a user message joins the context only from   *)
(* AwaitingInput and opens the turn named by its place, and any message    *)
(* appended while a turn runs belongs to that turn.                        *)
(***************************************************************************)
C10_TurnsDoNotOverlap ==
    [][Len(agent_context') > Len(agent_context)
       => IF Last(agent_context').role = "user"
          THEN /\ pc = "AwaitingInput"
               /\ Last(agent_context').turn = Len(agent_context')
               /\ turn' = Len(agent_context')
          ELSE /\ pc \in InTurn
               /\ turn' = turn
               /\ Last(agent_context').turn = turn
               /\ agent_context[turn].role = "user"]_vars

\* A second turn has been answered after a first turn was answered: its user
\* message came in from AwaitingInput and its answer carries its own turn.
C10_Witness ==
    /\ pc = "Responding"
    /\ turn = 3
    /\ agent_context[1] = UserMessage(1)
    /\ agent_context[2] = AssistantMessage(1)
    /\ agent_context[3] = UserMessage(3)
    /\ Last(agent_context) = AssistantMessage(3)

LoopStates == {"AwaitingInput", "Deciding", "Invoking", "Responding"}

LoopEdges ==
    { <<"AwaitingInput", "Deciding">>, <<"Deciding", "Invoking">>,
      <<"Deciding", "Responding">>, <<"Invoking", "Deciding">>,
      <<"Responding", "AwaitingInput">> }

C12_OnlyLoopTransitions ==
    [][/\ (pc' # pc /\ pc \in LoopStates /\ pc' \in LoopStates)
          => <<pc, pc'>> \in LoopEdges
       /\ (pc = "Invoking" /\ pc' # pc)
          => (pc' = "Deciding" /\ completed = 1..Len(batch))
       /\ (Len(agent_context') > Len(agent_context)
           /\ Last(agent_context').role = "assistant")
          => (pc = "Deciding" /\ batch = <<>> /\ pc' = "Responding")
       /\ (response' # response /\ response'.text = "final")
          => (pc = "Responding" /\ pc' = "AwaitingInput")]_vars

\* A turn that asked for a tool, was asked again and then answered.
C12_Witness ==
    /\ pc = "Responding"
    /\ hpc = "streaming"
    /\ batch = <<>>
    /\ Len(TurnMessages) = 3
    /\ TurnMessages[2].role = "tool"
    /\ ~TurnMessages[2].is_error
    /\ TurnMessages[3] = AssistantMessage(turn)

ToolResultsOf(seq) == SelectSeq(seq, LAMBDA m : m.role = "tool")

C14_CancelledTurnConsistent ==
    [][\A served \in SUBSET (1..MaxMessages) :
          Cancel(served)
          => /\ \/ agent_context' = agent_context
                \/ agent_context' = SubSeq(agent_context, 1, ctx_at_start)
                                       \o ToolResultsOf(TurnMessages)
             /\ \A i \in served :
                   \E k \in turn..Len(agent_context') :
                      /\ agent_context'[k].role = "tool"
                      /\ agent_context'[k].name = batch[i]]_vars

(***************************************************************************)
(* C15 as stated: the results of a batch stand in the context in request   *)
(* order, whatever the order in which the calls return.                    *)
(***************************************************************************)
NamesOf(seq) == [k \in 1..Len(seq) |-> seq[k].name]

ResultsOf(seq) == SelectSeq(seq, LAMBDA e : e.type = "ToolCallResult")

IsPrefix(a, b) == Len(a) <= Len(b) /\ SubSeq(b, 1, Len(a)) = a

C16_OneContextOneSnapshot ==
    [][/\ BuildAgent => pc \in {"Stopped", "Crashed"}
       /\ (pc \in LoopStates \/ ~BuildAgent)
          => /\ agent_tools' = agent_tools
             /\ IsPrefix(agent_context, agent_context')]_vars

\* A later turn of the conversation runs on the context of its first turn
\* and with the tools of cell 8, though the server has dropped delete_data.
C16_Witness ==
    /\ pc = "Deciding"
    /\ turn = 3
    /\ agent_context = <<UserMessage(1), AssistantMessage(1), UserMessage(3)>>
    /\ agent_tools = Tools
    /\ provider_tools = Tools \ {"delete_data"}

(***************************************************************************)
(* C17: in every turn each ToolCall event is followed by exactly one       *)
(* ToolCallResult for the same tool before the final answer (no result     *)
(* comes before its call, and at the final answer the calls and results of *)
(* every tool are as many), the end of the stream is the last event of the *)
(* turn, handle_user_message has read every event when it is about to      *)
(* return, and outside a turn the stream holds nothing.                    *)
(***************************************************************************)
\* How many of the first j events of seq are of type ty and for tool n.
CountOf(seq, j, ty, n) ==
    Cardinality({k \in 1..j : seq[k].type = ty /\ seq[k].tool_name = n})

C17_EventsPairedAndDrained ==
    /\ \A j \in 1..Len(Emitted) :
          Emitted[j].type = "ToolCallResult"
          => CountOf(Emitted, j, "ToolCallResult", Emitted[j].tool_name)
               <= CountOf(Emitted, j, "ToolCall", Emitted[j].tool_name)
    /\ \A k \in 1..Len(Emitted) :
          Emitted[k].type = "StopEvent" => (k = Len(Emitted) /\ pc = "Responding")
    /\ pc = "Responding"
          => /\ Last(Emitted) = StopEvent
             /\ \A n \in RequestNames :
                   CountOf(Emitted, Len(Emitted), "ToolCallResult", n)
                      = CountOf(Emitted, Len(Emitted), "ToolCall", n)
    /\ hpc = "awaiting"
          => (pc = "Responding" /\ stream = <<>> /\ Last(consumed) = StopEvent)
    /\ pc \notin InTurn
          => (stream = <<>> /\ consumed = <<>> /\ hpc = "idle")

\* A turn of two calls is about to return: four tool events, all read.
C17_Witness ==
    /\ hpc = "awaiting"
    /\ Len(ToolEvents(consumed)) = 4
    /\ Len(TurnMessages) = 4

(***************************************************************************)
(* C18: in the driver loop the line exit, and no other line, ends the loop *)
(* without a turn: the context, the streams and the server are left as     *)
(* they were; every other line, the empty one too, starts a whole turn:    *)
(* its user message joins the context and the agent decides (and may call  *)
(* tools, as the turns of the empty lines of the recorded run do).         *)
(***************************************************************************)
C18_OnlyExitEndsLoop ==
    [][(pc = "AwaitingInput" /\ pc' # pc)
       => IF user_input' = "exit"
          THEN /\ pc' = "Stopped"
               /\ UNCHANGED <<agent_context, turn, hpc, stream, consumed,
                              response, channel_sent, provider_log, batch>>
          ELSE /\ user_input' \in Utterances
               /\ pc' = "Deciding"
               /\ hpc' = "streaming"
               /\ agent_context' =
                      Append(agent_context, UserMessage(Len(agent_context) + 1))
               /\ turn' = Len(agent_context')]_vars

\* The turn of an empty line has called delete_data on the server and is
\* answered.
C18_Witness ==
    /\ user_input = ""
    /\ pc = "Responding"
    /\ TurnMessages = <<UserMessage(turn),
                        ToolMessage(turn, "delete_data", FALSE),
                        AssistantMessage(turn)>>
    /\ "delete_data" \in channel_sent
    /\ "delete_data" \in provider_log

(***************************************************************************)
(* C19: verbose changes only what is printed.  Checked step by step, for   *)
(* runs with verbose true and runs with verbose false: verbose is never    *)
(* changed; a round of the async-for is, on everything but the printed     *)
(* lines, the round it would be under the other value of verbose, and it   *)
(* can run whenever an event is waiting; a verbose run prints one line for *)
(* each tool event it reads and a quiet run prints nothing; and every step *)
(* but a round of the async-for leaves the printed lines alone or clears   *)
(* them.  No other step reads verbose, so the tool calls, the context and  *)
(* the answer of a run are those of the run under the other value.         *)
(***************************************************************************)
C19_VerboseOnlyPrints ==
    [][/\ verbose' = verbose
       /\ ConsumeEvent => \A v \in BOOLEAN : ReadEvent(v)
       /\ (hpc = "streaming" /\ stream # <<>>) => ENABLED ConsumeEvent
       /\ ConsumeEvent
          => printed' = IF verbose /\ IsToolEvent(Head(stream))
                        THEN Append(printed,
                                    <<IF Head(stream).type = "ToolCall"
                                      THEN "Calling tool" ELSE "Tool returned",
                                      Head(stream).tool_name>>)
                        ELSE printed
       /\ ~ConsumeEvent => printed' \in {printed, <<>>}
       /\ ~verbose => printed' = <<>>]_vars

\* A quiet turn has read the events of its tool call and of the end of the
\* stream, printed nothing, and is about to return its answer.
C19_Witness ==
    /\ ~verbose
    /\ hpc = "awaiting"
    /\ Len(ToolEvents(consumed)) = 2
    /\ printed = <<>>
    /\ Last(agent_context) = AssistantMessage(turn)

====
